---- MODULE Spec2Model ----
(***************************************************************************)
(* Model of aws/role_assumer.py (RoleAssumer) and aws/request_signer.py    *)
(* (RequestSigner), with the exception names of aws/exceptions.py.         *)
(*                                                                         *)
(* Strings whose characters matter (parameter keys and values, credential  *)
(* texts) are sequences of one-character strings.  Python's None is the    *)
(* sentinel sequence None, which no character sequence equals.  sha256 and *)
(* hmac are collision-free constructors.                                   *)
(***************************************************************************)
EXTENDS Naturals, Sequences, FiniteSets

VARIABLES env, phase, self, ctorError, clock, pc, loc, result, trace, sent, signLog

vars == <<env, phase, self, ctorError, clock, pc, loc, result, trace, sent, signLog>>

(* ------------------------------------------------------------------ *)
(* Bounds                                                             *)
(* ------------------------------------------------------------------ *)

\* The wall clock (seconds) runs from 0 up to MaxClock.
MaxClock == 1

\* The callers of the one instance: every thread may call sign_request on its
\* signer, the threads of AssumeThreads call assume_role as well.
Threads == {"t1", "t2"}

AssumeThreads == {"t1"}

(* ------------------------------------------------------------------ *)
(* Values                                                             *)
(* ------------------------------------------------------------------ *)

None == <<"None">>

S_AssumeRole == <<"A","s","s","u","m","e","R","o","l","e">>
S_Version == <<"2","0","1","1","-","0","6","-","1","5">>
S_SessionPrefix == <<"s","3","f","s","-","s","e","s","s","i","o","n","-">>

K_Action == <<"A","c","t","i","o","n">>
K_Version == <<"V","e","r","s","i","o","n">>
K_RoleArn == <<"R","o","l","e","A","r","n">>
K_RoleSessionName == <<"R","o","l","e","S","e","s","s","i","o","n","N","a","m","e">>
K_DurationSeconds == <<"D","u","r","a","t","i","o","n","S","e","c","o","n","d","s">>
K_ExternalId == <<"E","x","t","e","r","n","a","l","I","d">>

StsNamespace == "https://sts.amazonaws.com/doc/2011-06-15/"

DefaultRegion == "us-east-1"

DefaultSessionDuration == 3600

\* The characters of the model in code-point order (Python compares str by
\* code point).
CodePoints ==
    <<" ", "%", "&", "+", "-", ".", "/",
      "0", "1", "2", "3", "4", "5", "6", "7", "8", "9",
      ":", "=",
      "A", "B", "C", "D", "E", "F", "G", "H", "I", "J", "K", "L", "M",
      "N", "O", "P", "Q", "R", "S", "T", "U", "V", "W", "X", "Y", "Z",
      "_",
      "a", "b", "c", "d", "e", "f", "g", "h", "i", "j", "k", "l", "m",
      "n", "o", "p", "q", "r", "s", "t", "u", "v", "w", "x", "y", "z",
      "~">>

Ord(c) == CHOOSE i \in 1..Len(CodePoints) : CodePoints[i] = c

Letters ==
    {"A", "B", "C", "D", "E", "F", "G", "H", "I", "J", "K", "L", "M",
     "N", "O", "P", "Q", "R", "S", "T", "U", "V", "W", "X", "Y", "Z",
     "a", "b", "c", "d", "e", "f", "g", "h", "i", "j", "k", "l", "m",
     "n", "o", "p", "q", "r", "s", "t", "u", "v", "w", "x", "y", "z"}

DigitChars == <<"0", "1", "2", "3", "4", "5", "6", "7", "8", "9">>

Digits == {DigitChars[i] : i \in 1..Len(DigitChars)}

\* RFC 3986 unreserved characters: what urllib never percent-encodes.
Unreserved == Letters \cup Digits \cup {"_", ".", "-", "~"}

\* The upper-case hexadecimal escape of each reserved character of the model.
PctHex(c) ==
    CASE c = " " -> <<"%", "2", "0">>
      [] c = "%" -> <<"%", "2", "5">>
      [] c = "&" -> <<"%", "2", "6">>
      [] c = "+" -> <<"%", "2", "B">>
      [] c = "/" -> <<"%", "2", "F">>
      [] c = ":" -> <<"%", "3", "A">>
      [] c = "=" -> <<"%", "3", "D">>

RECURSIVE StrLt(_, _)
\* Python's str "<": lexicographic by code point, a proper prefix is smaller.
StrLt(a, b) ==
    IF b = <<>> THEN FALSE
    ELSE IF a = <<>> THEN TRUE
    ELSE IF Head(a) = Head(b) THEN StrLt(Tail(a), Tail(b))
    ELSE Ord(Head(a)) < Ord(Head(b))

RECURSIVE Str(_)
\* str(n) of a non-negative int.
Str(n) ==
    IF n < 10 THEN <<DigitChars[n + 1]>>
    ELSE Str(n \div 10) \o <<DigitChars[(n % 10) + 1]>>

RECURSIVE Join(_, _)
\* sep.join(parts) on character sequences.
Join(sep, parts) ==
    IF parts = <<>> THEN <<>>
    ELSE IF Len(parts) = 1 THEN parts[1]
    ELSE parts[1] \o sep \o Join(sep, Tail(parts))

(* ------------------------------------------------------------------ *)
(* aws/exceptions.py                                                  *)
(* ------------------------------------------------------------------ *)

\* The classes exceptions.py defines.
ExceptionsModule ==
    {"S3fsCredentialRefresherError", "RoleAssumeError", "CredentialServiceError",
     "CredentialFileError", "MountError", "ConfigurationError"}

\* The names role_assumer.py and request_signer.py import from .exceptions.
ImportedNames == {"RoleAssumeError", "SigningError", "CredentialError"}

\* The exception a caller gets where the code raises the imported class `name`:
\* the class when exceptions.py defines it; otherwise the name cannot be bound
\* and Python reports ImportError (by the import statement, so no later than the
\* raise that needs the name).
Resolve(name) == IF name \in ExceptionsModule THEN name ELSE "ImportError"

NoError == [kind |-> "", text |-> "", role |-> None, field |-> "", cause |-> ""]

\* An exception: its class, its message template, and what fills the template.
Err(kind, text, role, field, cause) ==
    [kind |-> kind, text |-> text, role |-> role, field |-> field, cause |-> cause]

(* ------------------------------------------------------------------ *)
(* urllib.parse.quote, as sign_request and requests use it            *)
(* ------------------------------------------------------------------ *)

\* The characters quote(v) leaves alone: its default is safe='/'.
QuoteSafe == Unreserved \cup {"/"}

RECURSIVE Quote(_)
\* quote(v) for a str v.
Quote(v) ==
    IF v = <<>> THEN <<>>
    ELSE (IF Head(v) \in QuoteSafe THEN <<Head(v)>> ELSE PctHex(Head(v)))
         \o Quote(Tail(v))

RECURSIVE QuotePlus(_)
\* quote_plus(v), which requests' urlencode applies to every key and value of
\* params: nothing but the unreserved characters is safe, and ' ' becomes '+'.
QuotePlus(v) ==
    IF v = <<>> THEN <<>>
    ELSE (IF Head(v) \in Unreserved THEN <<Head(v)>>
          ELSE IF Head(v) = " " THEN <<"+">>
          ELSE PctHex(Head(v)))
         \o QuotePlus(Tail(v))

\* quote(v) raises TypeError for a v that is neither str nor bytes.
QuoteRaises(v) == v = None

(* ------------------------------------------------------------------ *)
(* aws/request_signer.py                                              *)
(* ------------------------------------------------------------------ *)

RequestSigner(access_key, secret_key, region) ==
    [access_key |-> access_key, secret_key |-> secret_key, region |-> region]

Sha256(x) == <<"sha256", x>>

Hmac(key, msg) == <<"hmac", key, msg>>

\* t.strftime('%Y%m%dT%H%M%SZ') and t.strftime('%Y%m%d') of the instant t.
Amzdate(t) == [day |-> t \div 86400, second |-> t % 86400]

Datestamp(t) == [day |-> t \div 86400]

RECURSIVE InsertItem(_, _)
\* One item put into a list of (key, value) items sorted by key.  The keys of
\* a dict are unique, so the values never decide.
InsertItem(item, sorted) ==
    IF sorted = <<>> THEN <<item>>
    ELSE IF StrLt(item[1], Head(sorted)[1]) THEN <<item>> \o sorted
    ELSE <<Head(sorted)>> \o InsertItem(item, Tail(sorted))

RECURSIVE SortedItems(_)
\* sorted(params.items()), params given as its items in insertion order.
SortedItems(items) ==
    IF items = <<>> THEN <<>>
    ELSE InsertItem(items[Len(items)], SortedItems(SubSeq(items, 1, Len(items) - 1)))

\* A slip: the items are taken in the dict's own order, unsorted.
SigningOrder_Mutant(items) == items

\* The order in which sign_request goes through params.
SigningOrder(items) == SortedItems(items)

\* f"{k}={quote(v)}" of one item.
CanonicalPair(item) == item[1] \o <<"=">> \o Quote(item[2])

CanonicalQuerystring(items) ==
    LET ordered == SigningOrder(items)
    IN  Join(<<"&">>, [i \in 1..Len(ordered) |-> CanonicalPair(ordered[i])])

CanonicalHeaders(signer, t) ==
    <<[name |-> "host", value |-> <<"sts", signer.region, "amazonaws.com">>],
      [name |-> "x-amz-date", value |-> Amzdate(t)]>>

SignedHeaderNames == "host;x-amz-date"

Algorithm == "AWS4-HMAC-SHA256"

CanonicalRequest(signer, method, items, payload, t) ==
    [method |-> method, uri |-> "/", query |-> CanonicalQuerystring(items),
     headers |-> CanonicalHeaders(signer, t), signed |-> SignedHeaderNames,
     payload_hash |-> Sha256(payload)]

CredentialScope(signer, t) ==
    [date |-> Datestamp(t), region |-> signer.region, service |-> "sts",
     terminator |-> "aws4_request"]

StringToSign(signer, method, items, payload, t) ==
    [algorithm |-> Algorithm, amzdate |-> Amzdate(t),
     scope |-> CredentialScope(signer, t),
     hash |-> Sha256(CanonicalRequest(signer, method, items, payload, t))]

\* k_date, k_region, k_service, k_signing: derived from the secret at each call.
SigningKey(signer, t) ==
    LET k_date == Hmac(<<"AWS4", signer.secret_key>>, Datestamp(t))
        k_region == Hmac(k_date, signer.region)
        k_service == Hmac(k_region, "sts")
    IN  Hmac(k_service, "aws4_request")

AuthorizationHeader(signer, t, string_to_sign) ==
    [algorithm |-> Algorithm,
     credential |-> [access_key |-> signer.access_key, scope |-> CredentialScope(signer, t)],
     signed |-> SignedHeaderNames,
     signature |-> Hmac(SigningKey(signer, t), string_to_sign)]

\* What sign_request returns.
SignedHeaders(signer, t, string_to_sign) ==
    [Authorization |-> AuthorizationHeader(signer, t, string_to_sign),
     x_amz_date |-> Amzdate(t)]

\* Whether the try block of sign_request raises: quote(v) does for a value
\* that is not a str.
SigningRaises(items) == \E i \in 1..Len(items) : QuoteRaises(items[i][2])

\* except Exception as e: raise SigningError(f"Failed to sign request: {str(e)}")
SigningFailure ==
    Err(Resolve("SigningError"), "Failed to sign request: {cause}", None, "",
        "quote_from_bytes() expected bytes")

(* ------------------------------------------------------------------ *)
(* The STS response: xml.etree.ElementTree on the body                *)
(* ------------------------------------------------------------------ *)

\* An element: namespace, local name, text (None without text), children.
Elem(ns, tag, text, children) ==
    [ns |-> ns, tag |-> tag, text |-> text, children |-> children]

CredentialFields == <<"AccessKeyId", "SecretAccessKey", "SessionToken", "Expiration">>

RECURSIVE DescendantsOfAll(_)
\* The elements below the given siblings, each followed by its own subtree, in
\* document order.
DescendantsOfAll(siblings) ==
    IF siblings = <<>> THEN <<>>
    ELSE <<Head(siblings)>> \o DescendantsOfAll(Head(siblings).children)
         \o DescendantsOfAll(Tail(siblings))

\* The positions of the elements named {ns}tag in a list of elements.
Matches(elems, ns, tag) ==
    {i \in 1..Len(elems) : elems[i].ns = ns /\ elems[i].tag = tag}

Min(S) == CHOOSE i \in S : \A j \in S : i <= j

\* root.find('.//{ns}tag'): is there such an element below root, and the first.
HasDescendant(root, ns, tag) == Matches(DescendantsOfAll(root.children), ns, tag) # {}

FindDescendant(root, ns, tag) ==
    LET below == DescendantsOfAll(root.children)
    IN  below[Min(Matches(below, ns, tag))]

\* element.find('{ns}tag'): is there such a child, and the first.
HasChild(element, ns, tag) == Matches(element.children, ns, tag) # {}

FindChild(element, ns, tag) ==
    element.children[Min(Matches(element.children, ns, tag))]

(* ------------------------------------------------------------------ *)
(* aws/role_assumer.py                                                *)
(* ------------------------------------------------------------------ *)

\* Python truth of an Optional[str]: None and '' are false.
Truthy(v) == v # None /\ v # <<>>

Unconstructed ==
    [role_arn |-> None, external_id |-> None, region |-> "", session_duration |-> 0,
     access_key |-> None, secret_key |-> None,
     signer |-> RequestSigner(None, None, "")]

\* os.environ.get(name)
EnvironGet(name) == env[name]

\* The condition under which __init__ raises.
CredentialsMissing(access_key, secret_key) == ~Truthy(access_key) \/ ~Truthy(secret_key)

CredentialFailure ==
    Err(Resolve("CredentialError"), "AWS credentials not found in environment",
        None, "", "")

\* The instance __init__ leaves when it returns.
NewRoleAssumer(role_arn, external_id, region, session_duration) ==
    [role_arn |-> role_arn, external_id |-> external_id, region |-> region,
     session_duration |-> session_duration,
     access_key |-> EnvironGet("AWS_ACCESS_KEY_ID"),
     secret_key |-> EnvironGet("AWS_SECRET_ACCESS_KEY"),
     signer |-> RequestSigner(EnvironGet("AWS_ACCESS_KEY_ID"),
                              EnvironGet("AWS_SECRET_ACCESS_KEY"), region)]

\* A slip: `if self.external_id is not None:`.
AddsExternalId_Mutant(obj) == obj.external_id # None

\* Whether assume_role adds ExternalId: `if self.external_id:`.
AddsExternalId(obj) == Truthy(obj.external_id)

\* The params dict of assume_role, as its items in insertion order; now is
\* int(time.time()).
BuildParams(obj, now) ==
    <<<<K_Action, S_AssumeRole>>,
      <<K_Version, S_Version>>,
      <<K_RoleArn, obj.role_arn>>,
      <<K_RoleSessionName, S_SessionPrefix \o Str(now)>>,
      <<K_DurationSeconds, Str(obj.session_duration)>>>>
    \o (IF AddsExternalId(obj) THEN <<<<K_ExternalId, obj.external_id>>>> ELSE <<>>)

RECURSIVE EncodeParams(_)
\* The query requests.get(url, params=params) sends: urlencode of the items in
\* insertion order, an item whose value is None left out.
EncodeParams(items) ==
    IF items = <<>> THEN <<>>
    ELSE (IF Head(items)[2] = None THEN <<>>
          ELSE <<<<QuotePlus(Head(items)[1]), QuotePlus(Head(items)[2])>>>>)
         \o EncodeParams(Tail(items))

\* A slip: only the server errors are refused.
RaiseForStatusRaises_Mutant(status) == 500 <= status /\ status < 600

\* requests' Response.raise_for_status(): HTTPError for 4xx and 5xx.
RaiseForStatusRaises(status) == 400 <= status /\ status < 600

\* A slip: the status handled is 401, not 403.
IsAccessDenied_Mutant(status) == status = 401

\* The status assume_role handles itself.
IsAccessDenied(status) == status = 403

AccessDeniedFailure(obj) ==
    Err(Resolve("RoleAssumeError"), "Failed to assume role {role}: Access denied",
        obj.role_arn, "", "")

HttpFailure == Err("requests.HTTPError", "{cause}", None, "", "Client or Server Error")

TransportFailure ==
    Err("requests.ConnectionError", "{cause}", None, "", "connection failed")

ParseFailure ==
    Err(Resolve("RoleAssumeError"), "Failed to parse XML response: {cause}", None, "",
        "not well-formed")

NoCredentialsFailure ==
    Err(Resolve("RoleAssumeError"), "No credentials found in response", None, "", "")

\* _get_credential_text(element, name) raises: no such child, or no text in it.
FieldMissing(creds, name) == ~HasChild(creds, StsNamespace, name)

FieldWithoutText(creds, name) ==
    HasChild(creds, StsNamespace, name) /\ FindChild(creds, StsNamespace, name).text = None

\* A slip: an element without text passes.
FieldFails_Mutant(creds, name) == FieldMissing(creds, name)

FieldFails(creds, name) == FieldMissing(creds, name) \/ FieldWithoutText(creds, name)

\* A slip: the message of _get_credential_text is dropped, not wrapped.
FieldFailure_Mutant(creds, name) ==
    Err(Resolve("RoleAssumeError"), "Invalid credential format", None, "", "")

\* The RoleAssumeError of _get_credential_text, as assume_role re-raises it:
\* f"Invalid credential format: {str(e)}".
FieldFailure(creds, name) ==
    IF FieldMissing(creds, name)
    THEN Err(Resolve("RoleAssumeError"),
             "Invalid credential format: Missing {field} in credentials response",
             None, name, "")
    ELSE Err(Resolve("RoleAssumeError"),
             "Invalid credential format: No text content in {field} element",
             None, name, "")

GetCredentialText(creds, name) == FindChild(creds, StsNamespace, name).text

\* The dict literal is evaluated in order: the first field that fails raises.
FailingFields(creds) ==
    {i \in 1..Len(CredentialFields) : FieldFails(creds, CredentialFields[i])}

ExtractedCredentials(creds) ==
    [AccessKeyId |-> GetCredentialText(creds, "AccessKeyId"),
     SecretAccessKey |-> GetCredentialText(creds, "SecretAccessKey"),
     SessionToken |-> GetCredentialText(creds, "SessionToken"),
     Expiration |-> GetCredentialText(creds, "Expiration")]

(* ------------------------------------------------------------------ *)
(* Inputs                                                             *)
(* ------------------------------------------------------------------ *)

\* What an environment variable may hold: unset, empty, or a key.
AccessKeyValues == {None, <<>>, <<"A", "K", "I", "A">>}

SecretKeyValues == {None, <<>>, <<"s", "/", "K">>}

RoleArns == {None, <<"a", ":", "r", "/", "n">>}

ExternalIds == {None, <<>>, <<"e", "=", "1">>}

T_AccessKeyId == <<"A", "S", "I", "A">>
T_SecretAccessKey == <<"w", "/", "k">>
T_SessionToken == <<"t", "o", "k", "=">>
T_Expiration == <<"2", "0", "3", "0">>

Field(ns, name, text) == Elem(ns, name, text, <<>>)

AllFour ==
    <<Field(StsNamespace, "AccessKeyId", T_AccessKeyId),
      Field(StsNamespace, "SecretAccessKey", T_SecretAccessKey),
      Field(StsNamespace, "SessionToken", T_SessionToken),
      Field(StsNamespace, "Expiration", T_Expiration)>>

Credentials(ns, fields) == Elem(ns, "Credentials", None, fields)

Response(creds) ==
    Elem(StsNamespace, "AssumeRoleResponse", None,
         <<Elem(StsNamespace, "AssumeRoleResult", None, <<creds>>)>>)

Xml(root) == [wellformed |-> TRUE, root |-> root]

\* A body ElementTree cannot parse (an empty one, for instance).
NotXml == [wellformed |-> FALSE, root |-> Elem("", "", None, <<>>)]

D_Complete == Xml(Response(Credentials(StsNamespace, AllFour)))

D_ErrorResponse ==
    Xml(Elem(StsNamespace, "ErrorResponse", None,
             <<Elem(StsNamespace, "Error", None, <<>>)>>))

D_NoNamespace == Xml(Response(Credentials("", AllFour)))

D_NoSessionToken ==
    Xml(Response(Credentials(StsNamespace, <<AllFour[1], AllFour[2], AllFour[4]>>)))

D_EmptySessionToken ==
    Xml(Response(Credentials(StsNamespace,
        <<AllFour[1], AllFour[2], Field(StsNamespace, "SessionToken", None), AllFour[4]>>)))

D_TwoMissing ==
    Xml(Response(Credentials(StsNamespace, <<AllFour[2], AllFour[3]>>)))

D_RootIsCredentials == Xml(Credentials(StsNamespace, AllFour))

Bodies ==
    {NotXml, D_Complete, D_ErrorResponse, D_NoNamespace, D_NoSessionToken,
     D_EmptySessionToken, D_TwoMissing, D_RootIsCredentials}

HttpResponse(status, body) == [status |-> status, body |-> body]

\* What the transport may answer.
Responses ==
    {HttpResponse(st, D_ErrorResponse) : st \in {403, 404, 500}}
    \cup {HttpResponse(200, b) : b \in Bodies}
    \cup {HttpResponse(304, b) : b \in {NotXml, D_Complete}}

V_Slash == <<"x", "/">>
V_Space == <<"y", " ">>

\* Parameter mappings for direct sign_request calls, each a set of items.
DirectMappings ==
    { {<<<<"a">>, V_Slash>>},
      {<<<<"a">>, None>>},
      {<<<<"a">>, V_Space>>, <<<<"b">>, V_Slash>>},
      {<<<<"a">>, V_Slash>>, <<<<"B">>, V_Space>>},
      {<<<<"b">>, V_Slash>>, <<<<"B">>, V_Space>>, <<<<"a">>, V_Slash>>} }

\* The insertion orders a dict holding the mapping m may have.
OrdersOf(m) ==
    {q \in [1..Cardinality(m) -> m] : \A i, j \in 1..Cardinality(m) : i # j => q[i] # q[j]}

DirectParams == UNION {OrdersOf(m) : m \in DirectMappings}

\* The items of a params dict as a mapping.
ItemSet(items) == {items[i] : i \in 1..Len(items)}

(* ------------------------------------------------------------------ *)
(* State                                                              *)
(* ------------------------------------------------------------------ *)

EmptyLoc ==
    [call |-> "", params |-> <<>>, now |-> 0, t |-> 0, string_to_sign |-> None,
     headers |-> None, query |-> <<>>, status |-> 0, body |-> NotXml, root |-> None]

NoResult == [outcome |-> "none", value |-> None, error |-> NoError]

Returned(value) == [outcome |-> "returned", value |-> value, error |-> NoError]

Raised(error) == [outcome |-> "raised", value |-> None, error |-> error]

Init ==
    /\ env \in {[AWS_ACCESS_KEY_ID |-> a, AWS_SECRET_ACCESS_KEY |-> k] :
                    a \in AccessKeyValues, k \in SecretKeyValues}
    /\ phase = "new"
    /\ self = Unconstructed
    /\ ctorError = NoError
    /\ clock = 0
    /\ pc = [th \in Threads |-> "Idle"]
    /\ loc = [th \in Threads |-> EmptyLoc]
    /\ result = [th \in Threads |-> NoResult]
    /\ trace = [th \in Threads |-> <<>>]
    /\ sent = FALSE
    /\ signLog = FALSE

(* ------------------------------------------------------------------ *)
(* Operations                                                         *)
(* ------------------------------------------------------------------ *)

\* A slip: the signer keeps the date of its last call.
InstanceAfterCall_Mutant(obj, t) ==
    [obj EXCEPT !.signer =
        [access_key |-> obj.signer.access_key, secret_key |-> obj.signer.secret_key,
         region |-> obj.signer.region, datestamp |-> Datestamp(t)]]

\* Neither assume_role nor sign_request assigns an attribute of self or of
\* self.signer: the instance after a step of a call that read the clock at t.
InstanceAfterCall(obj, t) == obj

\* The steps of assume_role in the order of its statements; "" after the last.
StepAfter(step) ==
    CASE step = "Idle" -> "ParamsBuilt"
      [] step = "ParamsBuilt" -> "Signed"
      [] step = "Signed" -> "Requested"
      [] step = "Requested" -> "ResponseValidated"
      [] step = "ResponseValidated" -> "Parsed"
      [] step = "Parsed" -> "Done"
      [] OTHER -> ""

\* Thread th moves on: its position, its locals, the record of its steps.
Advance(th, to, locals) ==
    /\ pc' = [pc EXCEPT ![th] = to]
    /\ loc' = [loc EXCEPT ![th] = locals]
    /\ trace' = [trace EXCEPT ![th] = Append(@, to)]
    /\ result' = result

\* The call of thread th ends by raising error.
Raise(th, error) ==
    /\ pc' = [pc EXCEPT ![th] = "Error"]
    /\ loc' = loc
    /\ trace' = [trace EXCEPT ![th] = Append(@, "Error")]
    /\ result' = [result EXCEPT ![th] = Raised(error)]

\* The call of thread th ends by returning value.
Return(th, to, value) ==
    /\ pc' = [pc EXCEPT ![th] = to]
    /\ loc' = loc
    /\ trace' = [trace EXCEPT ![th] = Append(@, to)]
    /\ result' = [result EXCEPT ![th] = Returned(value)]

\* RoleAssumer(role_arn, external_id, region, session_duration)
Construct(role_arn, external_id, region, session_duration) ==
    /\ phase = "new"
    /\ IF CredentialsMissing(EnvironGet("AWS_ACCESS_KEY_ID"),
                             EnvironGet("AWS_SECRET_ACCESS_KEY"))
       THEN /\ phase' = "ctor_failed"
            /\ ctorError' = CredentialFailure
            /\ self' = self
       ELSE /\ phase' = "ready"
            /\ ctorError' = ctorError
            /\ self' = NewRoleAssumer(role_arn, external_id, region, session_duration)
    /\ UNCHANGED <<env, clock, pc, loc, result, trace, sent, signLog>>

\* The wall clock advances.
Tick ==
    /\ clock < MaxClock
    /\ clock' = clock + 1
    /\ UNCHANGED <<env, phase, self, ctorError, pc, loc, result, trace, sent, signLog>>

\* assume_role, lines 73-82: the params dict.
AssumeRoleBuildParams(th) ==
    /\ phase = "ready"
    /\ th \in AssumeThreads
    /\ pc[th] = "Idle"
    /\ Advance(th, StepAfter("Idle"),
               [EmptyLoc EXCEPT !.call = "assume_role", !.now = clock,
                                !.params = BuildParams(self, clock)])
    /\ self' = InstanceAfterCall(self, clock)
    /\ UNCHANGED <<env, phase, ctorError, clock, sent, signLog>>

\* sign_request, lines 44-71: the instant, the canonical request, the string
\* to sign; any exception becomes SigningError.
SignBegin(th, at) ==
    /\ phase = "ready"
    /\ pc[th] = at
    /\ signLog' = TRUE
    /\ IF SigningRaises(loc[th].params)
       THEN Raise(th, SigningFailure)
       ELSE /\ pc' = [pc EXCEPT ![th] = "Signing"]
            /\ loc' = [loc EXCEPT ![th] =
                         [@ EXCEPT !.t = clock,
                                   !.string_to_sign =
                                       StringToSign(self.signer, "GET", loc[th].params,
                                                    <<>>, clock)]]
            /\ UNCHANGED <<trace, result>>
    /\ self' = InstanceAfterCall(self, clock)
    /\ UNCHANGED <<env, phase, ctorError, clock, sent>>

\* assume_role, lines 86-90, entering sign_request.
AssumeRoleSignBegin(th) ==
    /\ loc[th].call = "assume_role"
    /\ SignBegin(th, "ParamsBuilt")

\* sign_request, lines 73-99, back in assume_role: the key chain, the
\* signature, the headers.
AssumeRoleSignEnd(th) ==
    /\ phase = "ready"
    /\ pc[th] = "Signing"
    /\ loc[th].call = "assume_role"
    /\ Advance(th, StepAfter("ParamsBuilt"),
               [loc[th] EXCEPT !.headers =
                    SignedHeaders(self.signer, loc[th].t, loc[th].string_to_sign)])
    /\ self' = InstanceAfterCall(self, loc[th].t)
    /\ UNCHANGED <<env, phase, ctorError, clock, sent, signLog>>

\* assume_role, lines 93-97: requests.get answers, or raises.
AssumeRoleRequest(th) ==
    /\ phase = "ready"
    /\ pc[th] = "Signed"
    /\ sent' = TRUE
    /\ \/ \E r \in Responses :
            Advance(th, StepAfter("Signed"),
                    [loc[th] EXCEPT !.query = EncodeParams(loc[th].params),
                                    !.status = r.status, !.body = r.body])
       \/ Raise(th, TransportFailure)
    /\ self' = InstanceAfterCall(self, loc[th].t)
    /\ UNCHANGED <<env, phase, ctorError, clock, signLog>>

\* assume_role, lines 99-104: 403, then raise_for_status().
AssumeRoleValidate(th) ==
    /\ phase = "ready"
    /\ pc[th] = "Requested"
    /\ IF IsAccessDenied(loc[th].status)
       THEN Raise(th, AccessDeniedFailure(self))
       ELSE IF RaiseForStatusRaises(loc[th].status)
       THEN Raise(th, HttpFailure)
       ELSE Advance(th, StepAfter("Requested"), loc[th])
    /\ self' = InstanceAfterCall(self, loc[th].t)
    /\ UNCHANGED <<env, phase, ctorError, clock, sent, signLog>>

\* assume_role, lines 107-109 and 125-126: ET.fromstring(response.content).
AssumeRoleParse(th) ==
    /\ phase = "ready"
    /\ pc[th] = "ResponseValidated"
    /\ IF ~loc[th].body.wellformed
       THEN Raise(th, ParseFailure)
       ELSE Advance(th, StepAfter("ResponseValidated"),
                    [loc[th] EXCEPT !.root = loc[th].body.root])
    /\ self' = InstanceAfterCall(self, loc[th].t)
    /\ UNCHANGED <<env, phase, ctorError, clock, sent, signLog>>

\* assume_role, lines 111-123: the Credentials element and its four fields.
AssumeRoleExtract(th) ==
    /\ phase = "ready"
    /\ pc[th] = "Parsed"
    /\ IF ~HasDescendant(loc[th].root, StsNamespace, "Credentials")
       THEN Raise(th, NoCredentialsFailure)
       ELSE LET creds == FindDescendant(loc[th].root, StsNamespace, "Credentials")
            IN  IF FailingFields(creds) # {}
                THEN Raise(th, FieldFailure(creds,
                                            CredentialFields[Min(FailingFields(creds))]))
                ELSE Return(th, StepAfter("Parsed"), ExtractedCredentials(creds))
    /\ self' = InstanceAfterCall(self, loc[th].t)
    /\ UNCHANGED <<env, phase, ctorError, clock, sent, signLog>>

\* A caller invokes self.signer.sign_request('GET', url, params) itself.
DirectSignBegin(th, items) ==
    /\ phase = "ready"
    /\ pc[th] = "Idle"
    /\ signLog' = TRUE
    /\ IF SigningRaises(items)
       THEN /\ pc' = [pc EXCEPT ![th] = "Error"]
            /\ loc' = [loc EXCEPT ![th] =
                         [EmptyLoc EXCEPT !.call = "sign_request", !.params = items]]
            /\ result' = [result EXCEPT ![th] = Raised(SigningFailure)]
       ELSE /\ pc' = [pc EXCEPT ![th] = "Signing"]
            /\ loc' = [loc EXCEPT ![th] =
                         [EmptyLoc EXCEPT !.call = "sign_request", !.params = items,
                                          !.t = clock,
                                          !.string_to_sign =
                                              StringToSign(self.signer, "GET", items,
                                                           <<>>, clock)]]
            /\ result' = result
    /\ self' = InstanceAfterCall(self, clock)
    /\ UNCHANGED <<env, phase, ctorError, clock, trace, sent>>

DirectSignEnd(th) ==
    /\ phase = "ready"
    /\ pc[th] = "Signing"
    /\ loc[th].call = "sign_request"
    /\ pc' = [pc EXCEPT ![th] = "SignReturned"]
    /\ result' = [result EXCEPT ![th] =
                     Returned(SignedHeaders(self.signer, loc[th].t,
                                            loc[th].string_to_sign))]
    /\ self' = InstanceAfterCall(self, loc[th].t)
    /\ UNCHANGED <<env, phase, ctorError, clock, loc, trace, sent, signLog>>

\* The caller takes what the call returned or raised; the call's locals are gone.
CallOver(th) ==
    /\ pc[th] \in {"Done", "Error", "SignReturned"}
    /\ pc' = [pc EXCEPT ![th] = "Idle"]
    /\ loc' = [loc EXCEPT ![th] = EmptyLoc]
    /\ result' = [result EXCEPT ![th] = NoResult]
    /\ trace' = [trace EXCEPT ![th] = <<>>]
    /\ UNCHANGED <<env, phase, self, ctorError, clock, sent, signLog>>

Next ==
    \/ \E a \in RoleArns, e \in ExternalIds :
          Construct(a, e, DefaultRegion, DefaultSessionDuration)
    \/ Tick
    \/ \E th \in Threads :
          \/ AssumeRoleBuildParams(th)
          \/ AssumeRoleSignBegin(th)
          \/ AssumeRoleSignEnd(th)
          \/ AssumeRoleRequest(th)
          \/ AssumeRoleValidate(th)
          \/ AssumeRoleParse(th)
          \/ AssumeRoleExtract(th)
          \/ CallOver(th)
    \/ \E th \in Threads, items \in DirectParams : DirectSignBegin(th, items)
    \/ \E th \in Threads : DirectSignEnd(th)

Spec == Init /\ [][Next]_vars

(* ------------------------------------------------------------------ *)
(* Properties                                                         *)
(* ------------------------------------------------------------------ *)

CoreErrors == {"CredentialError", "SigningError", "RoleAssumeError"}

\* Thread th is in an assume_role call that has got as far as step.
Reached(th, step) ==
    /\ loc[th].call = "assume_role"
    /\ \E i \in 1..Len(trace[th]) : trace[th][i] = step

\* The assume_role call of thread th is over.
Finished(th) == loc[th].call = "assume_role" /\ pc[th] \in {"Done", "Error"}

\* C1: constructing a RoleAssumer with the access key or the secret key absent
\* fails with CredentialError at construction: no instance, no signing call and
\* no network request.
C1_MissingCredentialsRaiseCredentialError ==
    (phase # "new" /\ CredentialsMissing(env["AWS_ACCESS_KEY_ID"],
                                         env["AWS_SECRET_ACCESS_KEY"]))
    => /\ phase = "ctor_failed"
       /\ ctorError.kind = "CredentialError"
       /\ self = Unconstructed
       /\ ~sent /\ ~signLog

\* C2: a 403 answer makes assume_role raise RoleAssumeError naming the
\* configured role ARN and "Access denied", it returns nothing, and no other
\* status ends in that error.
C2_AccessDeniedOn403 ==
    \A th \in Threads :
        (Reached(th, "Requested") /\ pc[th] # "Requested")
        => /\ loc[th].status = 403
              => /\ pc[th] = "Error"
                 /\ result[th].outcome = "raised"
                 /\ result[th].error.kind = "RoleAssumeError"
                 /\ result[th].error.text = "Failed to assume role {role}: Access denied"
                 /\ result[th].error.role = self.role_arn
           /\ (loc[th].status # 403 /\ result[th].outcome = "raised")
              => result[th].error.text # "Failed to assume role {role}: Access denied"

C2_Witness ==
    \E th \in Threads : Reached(th, "Requested") /\ pc[th] = "Error" /\ loc[th].status = 403

\* C3: every failure of assume_role after signing (transport failure, a status
\* that is not 2xx, malformed or incomplete XML) raises CredentialError,
\* SigningError or RoleAssumeError: no exception of the transport or of the
\* XML library escapes.
C3_FailuresAreCoreErrors ==
    \A th \in Threads :
        (Reached(th, "Signed") /\ result[th].outcome = "raised")
        => result[th].error.kind \in CoreErrors

\* The first element named {ns}tag of a list of elements.
IsFirstNamed(elems, ns, tag, i) ==
    /\ i \in 1..Len(elems)
    /\ elems[i].ns = ns /\ elems[i].tag = tag
    /\ \A j \in 1..(i - 1) : ~(elems[j].ns = ns /\ elems[j].tag = tag)

\* The body parses and its namespaced Credentials element holds, for each of
\* the four names, a namespaced element with text; with exact, the text is
\* texts[name].
HoldsFields(body, texts, exact) ==
    /\ body.wellformed
    /\ LET below == DescendantsOfAll(body.root.children)
       IN  \E c \in 1..Len(below) :
              /\ IsFirstNamed(below, StsNamespace, "Credentials", c)
              /\ \A n \in 1..Len(CredentialFields) :
                    \E f \in 1..Len(below[c].children) :
                       /\ IsFirstNamed(below[c].children, StsNamespace,
                                       CredentialFields[n], f)
                       /\ below[c].children[f].text # None
                       /\ exact => below[c].children[f].text = texts[CredentialFields[n]]

IsComplete(body) == HoldsFields(body, <<>>, FALSE)

HoldsCredentials(body, texts) ==
    /\ DOMAIN texts = {CredentialFields[n] : n \in 1..Len(CredentialFields)}
    /\ HoldsFields(body, texts, TRUE)

C5_BodyDefectsHaveOwnErrors ==
    \A th \in Threads :
        (Finished(th) /\ Reached(th, "ResponseValidated") /\ result[th].outcome = "raised")
        => LET e == result[th].error
               b == loc[th].body
               below == DescendantsOfAll(b.root.children)
           IN  /\ e.kind = "RoleAssumeError"
               /\ ~b.wellformed
                  => /\ e.text = "Failed to parse XML response: {cause}"
                     /\ e.cause # ""
               /\ (b.wellformed /\ Matches(below, StsNamespace, "Credentials") = {})
                  => e.text = "No credentials found in response"
               /\ (b.wellformed /\ Matches(below, StsNamespace, "Credentials") # {})
                  => /\ e.text \in
                          {"Invalid credential format: Missing {field} in credentials response",
                           "Invalid credential format: No text content in {field} element"}
                     /\ e.field \in {CredentialFields[n] : n \in 1..Len(CredentialFields)}
                     /\ LET c == below[Min(Matches(below, StsNamespace, "Credentials"))]
                            absent == Matches(c.children, StsNamespace, e.field) = {}
                        IN  /\ absent <=>
                                e.text = "Invalid credential format: Missing {field} in credentials response"
                            /\ ~absent =>
                                c.children[Min(Matches(c.children, StsNamespace, e.field))].text
                                    = None
               /\ b = D_NoSessionToken => e.field = "SessionToken"

C5_Witness ==
    \E th \in Threads :
        /\ Finished(th) /\ Reached(th, "ResponseValidated")
        /\ result[th].outcome = "raised"
        /\ loc[th].body = D_NoSessionToken

RECURSIVE SplitOn(_, _)
\* The segments of a character sequence between the occurrences of sep.
SplitOn(str, sep) ==
    IF \A i \in 1..Len(str) : str[i] # sep THEN <<str>>
    ELSE LET at == Min({i \in 1..Len(str) : str[i] = sep})
         IN  <<SubSeq(str, 1, at - 1)>> \o SplitOn(SubSeq(str, at + 1, Len(str)), sep)

\* The key=value segments of a query string, as a set.
Segments(query) ==
    IF query = <<>> THEN {}
    ELSE LET parts == SplitOn(query, "&") IN {parts[i] : i \in 1..Len(parts)}

KeyOf(segment) == SplitOn(segment, "=")[1]

ValueOf(segment) == SubSeq(segment, Len(KeyOf(segment)) + 2, Len(segment))

\* Thread th is in an assume_role call whose params sign_request has signed.
HasSigned(th) ==
    loc[th].call = "assume_role" /\ (pc[th] = "Signing" \/ Reached(th, "Signed"))

\* The canonical querystring of the request thread th has signed.
SignedQuery(th) == loc[th].string_to_sign.hash[2].query

\* C6: the parameters assume_role signs and sends hold ExternalId exactly when
\* a non-empty external ID is configured, with the configured value: an empty
\* ExternalId is never signed or sent, be the external ID None or ''.
C6_ExternalIdOnlyWhenConfigured ==
    \A th \in Threads :
        LET configured == self.external_id \notin {None, <<>>} IN
        /\ (loc[th].call = "assume_role" /\ pc[th] # "Idle")
           => LET p == loc[th].params IN
              /\ (\E i \in 1..Len(p) : p[i][1] = K_ExternalId) <=> configured
              /\ \A i \in 1..Len(p) :
                    p[i][1] = K_ExternalId
                    => (p[i][2] = self.external_id /\ p[i][2] # <<>>)
        /\ HasSigned(th)
           => /\ (\E g \in Segments(SignedQuery(th)) : KeyOf(g) = K_ExternalId)
                 <=> configured
              /\ \A g \in Segments(SignedQuery(th)) :
                    KeyOf(g) = K_ExternalId => ValueOf(g) # <<>>
        /\ Reached(th, "Requested")
           => LET q == loc[th].query IN
              /\ (\E i \in 1..Len(q) : q[i][1] = K_ExternalId) <=> configured
              /\ \A i \in 1..Len(q) :
                    q[i][1] = K_ExternalId
                    => (q[i][2] = QuotePlus(self.external_id) /\ q[i][2] # <<>>)

C6_Witness ==
    \E th \in Threads :
        /\ Reached(th, "Requested")
        /\ self.external_id = <<>>
        /\ \A i \in 1..Len(loc[th].query) : loc[th].query[i][1] # K_ExternalId

\* C7: with the signing identity and the instant fixed, sign_request depends on
\* the parameter mapping alone: two calls whose params hold the same items, in
\* whatever order, build the same canonical querystring and return the same
\* Authorization header.
C7_SigningIgnoresInsertionOrder ==
    \A a, b \in Threads :
        (/\ loc[a].call = "sign_request" /\ loc[b].call = "sign_request"
         /\ pc[a] \in {"Signing", "SignReturned"} /\ pc[b] \in {"Signing", "SignReturned"}
         /\ ItemSet(loc[a].params) = ItemSet(loc[b].params))
        => /\ SignedQuery(a) = SignedQuery(b)
           /\ (pc[a] = "SignReturned" /\ pc[b] = "SignReturned" /\ loc[a].t = loc[b].t)
              => result[a].value.Authorization = result[b].value.Authorization

C7_Witness ==
    \E a, b \in Threads :
        /\ pc[a] = "SignReturned" /\ pc[b] = "SignReturned"
        /\ loc[a].t = loc[b].t
        /\ Len(loc[a].params) = 3
        /\ loc[a].params # loc[b].params
        /\ ItemSet(loc[a].params) = ItemSet(loc[b].params)

AssumeRoleSteps ==
    <<"ParamsBuilt", "Signed", "Requested", "ResponseValidated", "Parsed", "Done">>

\* C8: an assume_role call goes through ParamsBuilt, Signed, Requested,
\* ResponseValidated, Parsed, Done in that order and ends in an error at the
\* first step that fails: the GET follows a successful signing, parsing follows
\* a validated status, credentials are returned after all four fields were
\* extracted, and nothing runs after a failure.
C8_StepsInOrder ==
    /\ sent => signLog
    /\ \A th \in Threads :
        loc[th].call = "assume_role"
        => LET tr == trace[th]
               n == Len(tr)
           IN  /\ n \in 1..Len(AssumeRoleSteps)
               /\ \A i \in 1..n :
                     tr[i] = AssumeRoleSteps[i] \/ (i = n /\ tr[i] = "Error")
               /\ pc[th] = (IF pc[th] = "Signing" THEN "Signing" ELSE tr[n])
               /\ pc[th] = "Signing" => tr[n] = "ParamsBuilt"
               /\ result[th].outcome = "raised" <=> pc[th] = "Error"
               /\ result[th].outcome = "returned" <=> pc[th] = "Done"
               /\ Reached(th, "Signed") => ~SigningRaises(loc[th].params)
               /\ Reached(th, "Requested") => sent
               /\ Reached(th, "ResponseValidated") => loc[th].status \notin 400..599
               /\ Reached(th, "Parsed") => loc[th].body.wellformed
               /\ Reached(th, "Done")
                  => \A name \in DOMAIN result[th].value : result[th].value[name] # None

C8_Witness ==
    \E th \in Threads : loc[th].call = "assume_role" /\ trace[th] = AssumeRoleSteps

\* C9: every value in the signed canonical querystring is percent-encoded down
\* to the unreserved characters, a role ARN with ':' and '/' included, so that
\* the signed querystring holds the same encoded parameters as the GET sends.
C9_SignedQueryIsFullyEncoded ==
    \A th \in Threads :
        /\ HasSigned(th)
           => \A g \in Segments(SignedQuery(th)) :
                 \A i \in 1..Len(ValueOf(g)) : ValueOf(g)[i] \in Unreserved \cup {"%"}
        /\ Reached(th, "Requested")
           => Segments(SignedQuery(th))
              = {loc[th].query[i][1] \o <<"=">> \o loc[th].query[i][2] :
                    i \in 1..Len(loc[th].query)}

\* What sign_request returns for params at the instant t, computed from the
\* instance's fields alone.
AloneHeaders(params, t) ==
    LET signer == RequestSigner(self.access_key, self.secret_key, self.region)
    IN  SignedHeaders(signer, t, StringToSign(signer, "GET", params, <<>>, t))

C10_ResultsAsAlone ==
    /\ phase = "ready"
       => /\ DOMAIN self.signer = {"access_key", "secret_key", "region"}
          /\ self.signer = RequestSigner(self.access_key, self.secret_key, self.region)
          /\ self.access_key = env["AWS_ACCESS_KEY_ID"]
          /\ self.secret_key = env["AWS_SECRET_ACCESS_KEY"]
    /\ \A th \in Threads :
          /\ pc[th] = "SignReturned"
             => result[th].value = AloneHeaders(loc[th].params, loc[th].t)
          /\ Reached(th, "Signed")
             => loc[th].headers = AloneHeaders(BuildParams(self, loc[th].now), loc[th].t)

\* C10: no call of assume_role or sign_request, whether it returns or raises,
\* changes the configuration of the RoleAssumer or the identity of its signer,
\* and the signer keeps no key or timestamp between calls: interleaved calls
\* each end as they would alone.
C10_CallsLeaveInstanceAlone ==
    /\ [][phase = "ready" => (phase' = "ready" /\ self' = self /\ env' = env)]_vars
    /\ []C10_ResultsAsAlone

C10_Witness ==
    /\ pc["t1"] = "Done" /\ pc["t2"] = "SignReturned"
    /\ loc["t1"].t # loc["t2"].t

====
